---- MODULE Spec2Model ----
(***************************************************************************)
(* Model of the OHTTP gateway (privacy-gateway-server-go).                 *)
(*                                                                         *)
(* One request at a time is taken through gatewayHandler and the chain of  *)
(* encapsulation / application / HTTP handlers behind it.  The response    *)
(* writer, the per-request metrics bag and the sequence of library calls   *)
(* made for the request are the state.                                     *)
(***************************************************************************)
EXTENDS Integers, Sequences, FiniteSets, TLC

VARIABLES
    s,      \* the gatewayResource built by main(): debugResponse, allowedOrigins, gateway configs
    pc,     \* "idle": waiting for a request, "done": the handler has returned
    req,    \* the outer request being handled
    w,      \* the http.ResponseWriter of the request
    bag,    \* labels passed to Metrics.Fire for this request, in order
    calls,  \* library / handler invocations made for this request, in order
    chunks, \* what the application handler wrote to its EncapsulatedChunkWriter
    handlerErr, \* the error the encapsulation handler returned to ohttpGatewayHandler
    tasks,  \* concurrently served requests: position, request and call outcomes of each
    frames, \* the locals of each serving goroutine: metrics, writer, context, response
    rng,    \* the process-wide math/rand source: last seed and draws since
    boot,   \* main(): its environment and how far it got
    twin    \* a second handling to compare with: its request and its handler state

vars == <<s, pc, req, w, bag, calls, chunks, handlerErr, tasks, frames, rng, boot, twin>>

----------------------------------------------------------------------------
(* Bounds *)

\* number of distinct HPKE key pairs (1 = primary seed, 2 = legacy seed, others foreign)
MaxKey == 3
\* number of requests served at the same time
NTasks == 2
\* distinct clock readings time.Now().UnixNano() may yield
MaxSeed == 1
\* how many values at each end of [0, n) stand for the results of rand.Intn(n)
IntnEdge == 1

----------------------------------------------------------------------------
(* Program constants *)

ohttpRequestContentType == "message/ohttp-req"
ohttpResponseContentType == "message/ohttp-res"
ohttpChunkedRequestContentType == "message/ohttp-chunked-req"

twelveHours == 12 * 3600
twentyFourHours == 24 * 3600

metricsResultConfigsUnavalable == "configs_unavailable"
metricsResultInvalidMethod == "invalid_method"
metricsResultInvalidContentType == "invalid_content_type"
metricsResultInvalidContent == "invalid_content"
metricsResultConfigurationMismatch == "config_mismatch"
metricsResultDecapsulationFailed == "decapsulation_failed"
metricsResultEncapsulationFailed == "encapsulation_failed"
metricsResultContentDecodingFailed == "content_decode_failed"
metricsResultContentEncodingFailed == "content_encode_failed"
metricsResultRequestTranslationFailed == "request_translate_failed"
metricsResultResponseTranslationFailed == "response_translate_failed"
metricsResultTargetRequestForbidden == "request_forbidden"
metricsResultTargetRequestFailed == "request_failed"
metricsResultSuccess == "success"
metricsPayloadStatusPrefix == "gateway_payload"

StatusOK == 200
StatusBadRequest == 400
StatusUnauthorized == 401
StatusForbidden == 403
StatusInternalServerError == 500

defaultGatewayEndpoint == "/gateway"
defaultEchoEndpoint == "/gateway-echo"
defaultMetadataEndpoint == "/gateway-metadata"
defaultConfigEndpoint == "/ohttp-keys"
defaultLegacyConfigEndpoint == "/ohttp-configs"

\* getUintEnv(configurationIdEnvironmentVariable, 0)
defaultConfigID == 0

KEM_X25519_KYBER768_DRAFT00 == "X25519_KYBER768"
KEM_X25519_HKDF_SHA256 == "X25519"
KDF_HKDF_SHA256 == "HKDF_SHA256"
AEAD_AES128GCM == "AES128GCM"

----------------------------------------------------------------------------
(* Errors *)

ErrNil == "nil"
ErrConfigMismatch == "configuration mismatch"
ErrEncapsulation == "encapsulation error"
ErrPayloadMarshalling == "issues with payload marshalling (BHTTP or Protobuf)"
ErrGatewayTargetForbidden == "target forbidden on gateway (request was blocked by gateway)"
ErrGatewayInternalServer == "the request failed to be processed after decapsulation"
\* the error client.Do returns: none of the sentinel errors above
ErrTransport == "transport error"

ApplicationTierErrors == {ErrPayloadMarshalling, ErrGatewayTargetForbidden, ErrGatewayInternalServer}

\* variant: the payload status of an application-tier error leaks to the outer status
ErrEncapsulationToGatewayStatusCodeLeaky(e) ==
    CASE e = ErrConfigMismatch -> StatusUnauthorized
      [] e = ErrEncapsulation -> StatusBadRequest
      [] e = ErrGatewayTargetForbidden -> StatusForbidden
      [] e = ErrGatewayInternalServer -> StatusInternalServerError
      [] OTHER -> StatusBadRequest

\* variant: the ErrConfigMismatch case is missing
ErrEncapsulationToGatewayStatusCodeNoMismatchCase(e) ==
    CASE e = ErrEncapsulation -> StatusBadRequest
      [] OTHER -> StatusBadRequest

\* variant: an encapsulation error is answered like a configuration mismatch
ErrEncapsulationToGatewayStatusCodeEncapsulationUnauthorized(e) ==
    CASE e = ErrConfigMismatch -> StatusUnauthorized
      [] e = ErrEncapsulation -> StatusUnauthorized
      [] OTHER -> StatusBadRequest

ErrEncapsulationToGatewayStatusCode(e) ==
    CASE e = ErrConfigMismatch -> StatusUnauthorized
      [] e = ErrEncapsulation -> StatusBadRequest
      [] OTHER -> StatusBadRequest

payloadErrorToPayloadStatusCode(e) ==
    CASE e = ErrPayloadMarshalling -> StatusBadRequest
      [] e = ErrGatewayTargetForbidden -> StatusForbidden
      [] e = ErrGatewayInternalServer -> StatusInternalServerError
      [] OTHER -> 400

StatusText(code) ==
    CASE code = 200 -> "OK"
      [] code = 400 -> "Bad Request"
      [] code = 401 -> "Unauthorized"
      [] code = 403 -> "Forbidden"
      [] code = 500 -> "Internal Server Error"
      [] OTHER -> ""

----------------------------------------------------------------------------
(* Startup: the configurations main() stores in the gateway *)

\* variant: the subtraction does not wrap at 8 bits
LegacyConfigIDNoWrap(configID) == (configID - 128) % 255

\* variant: the offset of 128 is missing
LegacyConfigIDNoOffset(configID) == configID % 255

\* uint8((configID - 128) % 255) on uint8 operands
LegacyConfigID(configID) == ((configID - 128) % 256) % 255

Suite(kem, kdf, aead) == [kem |-> kem, kdf |-> kdf, aead |-> aead]

\* key 1 is derived from the seed, key 2 from the seed with its last byte flipped
PrivateConfigs(configID) ==
    << [keyID |-> configID,
        suite |-> Suite(KEM_X25519_KYBER768_DRAFT00, KDF_HKDF_SHA256, AEAD_AES128GCM),
        key |-> 1],
       [keyID |-> LegacyConfigID(configID),
        suite |-> Suite(KEM_X25519_HKDF_SHA256, KDF_HKDF_SHA256, AEAD_AES128GCM),
        key |-> 2] >>

\* ALLOWED_TARGET_ORIGINS: unset (nil map) or a list of hosts
NilOrigins == {"<nil>"}
AllowLists == {NilOrigins, {"allowed.example"}}

NewGatewayResource(debug, origins, configID) ==
    [debugResponse |-> debug,
     allowedOrigins |-> origins,
     legacyKeyID |-> LegacyConfigID(configID),
     gateway |-> PrivateConfigs(configID)]

\* what CUSTOM_REQUEST_TYPE and CUSTOM_RESPONSE_TYPE may hold; "" is unset
protoHTTPRequestLabel == "message/protohttp request"
protoHTTPResponseLabel == "message/protohttp response"
Labels == {"", protoHTTPRequestLabel, protoHTTPResponseLabel, "message/custom"}

Uint8 == 0..255

\* the environment main() reads
StartupEnvs ==
    [configID : Uint8, requestLabel : Labels, responseLabel : Labels,
     debug : BOOLEAN, origins : AllowLists]

DefaultStartupEnv(debug, origins) ==
    [configID |-> defaultConfigID, requestLabel |-> "", responseLabel |-> "",
     debug |-> debug, origins |-> origins]

\* the process before main() has run
NotStarted(e) ==
    [pc |-> "start", env |-> e, requestLabel |-> "", responseLabel |-> "", appHandler |-> ""]

\* main() up to http.HandleFunc: the labels and the application handler it
\* settles on, or a panic
main(e) ==
    IF e.requestLabel = "" \/ e.responseLabel = "" \/ e.requestLabel = e.responseLabel
    THEN [pc |-> "serving", env |-> e,
          requestLabel |-> "message/bhttp request",
          responseLabel |-> "message/bhttp response",
          appHandler |-> "BinaryHTTPAppHandler"]
    ELSE IF /\ e.requestLabel = protoHTTPRequestLabel
            /\ e.responseLabel = protoHTTPResponseLabel
         THEN [pc |-> "serving", env |-> e,
               requestLabel |-> e.requestLabel,
               responseLabel |-> e.responseLabel,
               appHandler |-> "ProtoHTTPAppHandler"]
         ELSE [pc |-> "panic", env |-> e, requestLabel |-> e.requestLabel,
               responseLabel |-> e.responseLabel, appHandler |-> ""]

\* no gatewayResource exists before main() has built one
NoResource ==
    [debugResponse |-> FALSE, allowedOrigins |-> NilOrigins, legacyKeyID |-> 0, gateway |-> <<>>]

----------------------------------------------------------------------------
(* ohttp.Gateway, as the handlers and the tests use it *)

KeyMap(gateway) == {gateway[i].keyID : i \in 1..Len(gateway)}

ConfigFor(gateway, keyID) ==
    CHOOSE c \in {gateway[i] : i \in 1..Len(gateway)} : c.keyID = keyID

\* variant: the algorithm triple takes part in the match
MatchesConfigWithSuite(gateway, encReq) ==
    \E i \in 1..Len(gateway) :
        gateway[i].keyID = encReq.keyID /\ gateway[i].suite = encReq.suite

\* selection is by key ID
MatchesConfig(gateway, encReq) == encReq.keyID \in KeyMap(gateway)

\* The request was sealed to the stored key pair under the stored KEM and is intact
MayOpen(gateway, encReq) ==
    /\ encReq.keyID \in KeyMap(gateway)
    /\ LET c == ConfigFor(gateway, encReq.keyID)
       IN /\ encReq.suite.kem = c.suite.kem
          /\ encReq.key = c.key
          /\ ~encReq.tampered

\* HPKE open.  A request sealed to another key pair or under another KEM, or a
\* tampered one, never opens.  Whether a request sealed to the stored key under
\* the stored KEM but another KDF or AEAD opens is decided by the library
CanOpen(gateway, encReq, env) ==
    /\ MayOpen(gateway, encReq)
    /\ (encReq.suite = ConfigFor(gateway, encReq.keyID).suite \/ env.suiteOK)

\* the EncapsulationContext a successful decapsulation creates
Context(gateway, encReq) ==
    [keyID |-> encReq.keyID, key |-> ConfigFor(gateway, encReq.keyID).key]

NoContext == [keyID |-> -1, key |-> 0]

\* the public half of a stored configuration
PublicConfig(c) == [keyID |-> c.keyID, suite |-> c.suite, publicKey |-> c.key]

\* config.Marshal() and gateway.MarshalConfigs(): the bytes of a list of public configurations
KeysBody(configs) == [kind |-> "ohttp-keys", ctx |-> NoContext, text |-> configs]

\* every stored configuration, in the order NewDefaultGateway was given them
MarshalConfigs(gateway) == KeysBody([i \in 1..Len(gateway) |-> PublicConfig(gateway[i])])

Marshal(c) == KeysBody(<<PublicConfig(c)>>)

\* context.EncapsulateResponse(plaintext).Marshal(): the sealed bytes
SealedBody(ctx, plaintext) == [kind |-> "ohttp-res", ctx |-> ctx, text |-> plaintext]

\* bytes written in the clear
PlainBody(text) == [kind |-> "plain", ctx |-> NoContext, text |-> text]

----------------------------------------------------------------------------
(* http.ResponseWriter, Metrics and the per-request handler state *)

HeaderNames == {"Content-Type", "Connection", "Cache-Control", "X-Content-Type-Options"}

NoHeaders == [n \in HeaderNames |-> ""]

\* a fresh response writer: nothing sent yet
NewResponseWriter ==
    [wroteHeader |-> FALSE, code |-> 0, header |-> NoHeaders, sent |-> NoHeaders, body |-> <<>>]

\* metricsFactory.Create plus the writer the server hands to the handler
NewHandlerState ==
    [w |-> NewResponseWriter, bag |-> <<>>, calls |-> <<>>, chunks |-> <<>>, err |-> "nil"]

ResultLabel(result) == [name |-> result, prefix |-> "", status |-> 0]

\* fmt.Sprintf("%s_response_status_%d", prefix, status)
StatusLabel(prefix, status) == [name |-> "response_status", prefix |-> prefix, status |-> status]

Fire(h, result) == [h EXCEPT !.bag = Append(@, ResultLabel(result))]

ResponseStatus(h, prefix, status) == [h EXCEPT !.bag = Append(@, StatusLabel(prefix, status))]

Call(h, op, ok) == [h EXCEPT !.calls = Append(@, [op |-> op, ok |-> ok])]

SetHeader(h, name, value) == [h EXCEPT !.w.header[name] = value]

\* the first WriteHeader fixes the status and the headers on the wire; later ones are ignored
WriteHeader(h, code) ==
    IF h.w.wroteHeader THEN h
    ELSE [h EXCEPT !.w.wroteHeader = TRUE, !.w.code = code, !.w.sent = h.w.header]

\* Write sends the header with 200 when none was sent, then appends to the body
Write(h, bytes) ==
    LET h1 == WriteHeader(h, StatusOK)
    IN [h1 EXCEPT !.w.body = Append(@, bytes)]

\* net/http.Error
HttpError(h, text, code) ==
    LET h1 == SetHeader(h, "Content-Type", "text/plain; charset=utf-8")
        h2 == SetHeader(h1, "X-Content-Type-Options", "nosniff")
        h3 == WriteHeader(h2, code)
    IN Write(h3, PlainBody(text))

httpError(h, res, status, debugMessage, metricsPrefix) ==
    LET h1 == IF res.debugResponse
              THEN HttpError(h, debugMessage, status)
              ELSE HttpError(h, <<StatusText(status)>>, status)
    IN ResponseStatus(h1, metricsPrefix, status)

----------------------------------------------------------------------------
(* Inner payloads *)

GarbagePayload == <<"garbage">>

BinaryRequest(host) == <<"bhttp-req", host>>

\* a binary HTTP request with Host and the rest of its control data
BinaryRequestTo(host, target) == <<"bhttp-req", host, target>>

BinaryResponse(status) == <<"bhttp-res", status>>

\* ohttp.UnmarshalBinaryRequest
CanUnmarshalBinaryRequest(binaryRequest) ==
    Len(binaryRequest) >= 2 /\ binaryRequest[1] = "bhttp-req"

RequestHost(binaryRequest) == binaryRequest[2]

\* httputil.DumpRequest(outerRequest, false): method, URL and headers, no body
DumpRequest(outerRequest) ==
    <<"dump", outerRequest.method, outerRequest.path, outerRequest.contentType>>

----------------------------------------------------------------------------
(* HttpRequestHandler *)

\* variant: the allow list is not consulted
FilteredHttpRequestHandlerHandleNoFilter(h, res, host, env) ==
    LET h1 == Call(h, "client.Do", env.fetchOK)
    IN IF ~env.fetchOK
       THEN [h |-> Fire(h1, metricsResultTargetRequestFailed), err |-> ErrTransport]
       ELSE [h |-> Fire(h1, metricsResultSuccess), err |-> ErrNil]

\* variant: a failed fetch is tried a second time
FilteredHttpRequestHandlerHandleRetry(h, res, host, env) ==
    IF res.allowedOrigins # NilOrigins /\ host \notin res.allowedOrigins
    THEN [h |-> Fire(h, metricsResultTargetRequestForbidden), err |-> ErrGatewayTargetForbidden]
    ELSE LET h1 == Call(h, "client.Do", env.fetchOK)
         IN IF ~env.fetchOK
            THEN [h |-> Fire(Call(h1, "client.Do", FALSE), metricsResultTargetRequestFailed),
                  err |-> ErrTransport]
            ELSE [h |-> Fire(h1, metricsResultSuccess), err |-> ErrNil]

\* Returns [h, err]; client.Do is invoked only when the Host passes the allow list
FilteredHttpRequestHandlerHandle(h, res, host, env) ==
    IF res.allowedOrigins # NilOrigins /\ host \notin res.allowedOrigins
    THEN [h |-> Fire(h, metricsResultTargetRequestForbidden), err |-> ErrGatewayTargetForbidden]
    ELSE LET h1 == Call(h, "client.Do", env.fetchOK)
         IN IF ~env.fetchOK
            THEN [h |-> Fire(h1, metricsResultTargetRequestFailed), err |-> ErrTransport]
            ELSE [h |-> Fire(h1, metricsResultSuccess), err |-> ErrNil]

----------------------------------------------------------------------------
(* AppContentHandler *)

\* EncapsulatedChunkWriter.Write: the writer wraps the identifier w of
\* DefaultEncapsulationHandler.Handle, which that function does not bind; it
\* is either the response writer of the request or some other sink
ChunkWrite(h, bytes, env) ==
    LET h1 == [h EXCEPT !.chunks = Append(@, bytes)]
    IN IF env.wOuter THEN Write(h1, PlainBody(bytes)) ELSE h1

\* NewBinaryResponseEncoder(e).Encode(resp)
Encode(h, resp, env) ==
    LET h1 == Call(h, "Encode", env.encodeOK)
    IN IF env.encodeOK THEN ChunkWrite(h1, resp, env) ELSE h1

\* variant: the filter is handed the last field of the request, not its Host
BinaryHTTPAppHandlerHandleByTarget(h, res, binaryRequest, env) ==
    LET h0 == Call(h, "BinaryHTTPAppHandler.Handle", TRUE)
    IN IF ~CanUnmarshalBinaryRequest(binaryRequest)
       THEN [h |-> Fire(h0, metricsResultContentDecodingFailed), err |-> ErrPayloadMarshalling]
       ELSE LET r == FilteredHttpRequestHandlerHandle(h0, res,
                         binaryRequest[Len(binaryRequest)], env)
            IN IF r.err # ErrNil
               THEN IF r.err = ErrGatewayTargetForbidden
                    THEN [h |-> r.h, err |-> ErrGatewayTargetForbidden]
                    ELSE [h |-> r.h, err |-> ErrGatewayInternalServer]
               ELSE LET h1 == Encode(r.h, BinaryResponse("200"), env)
                    IN IF ~env.encodeOK
                       THEN [h |-> Fire(h1, metricsResultContentEncodingFailed),
                             err |-> ErrPayloadMarshalling]
                       ELSE [h |-> Fire(h1, "gateway_payload200"), err |-> ErrNil]

\* Returns [h, err]
BinaryHTTPAppHandlerHandle(h, res, binaryRequest, env) ==
    LET h0 == Call(h, "BinaryHTTPAppHandler.Handle", TRUE)
    IN IF ~CanUnmarshalBinaryRequest(binaryRequest)
       THEN [h |-> Fire(h0, metricsResultContentDecodingFailed), err |-> ErrPayloadMarshalling]
       ELSE LET r == FilteredHttpRequestHandlerHandle(h0, res, RequestHost(binaryRequest), env)
            IN IF r.err # ErrNil
               THEN IF r.err = ErrGatewayTargetForbidden
                    THEN [h |-> r.h, err |-> ErrGatewayTargetForbidden]
                    ELSE [h |-> r.h, err |-> ErrGatewayInternalServer]
               ELSE LET h1 == Encode(r.h, BinaryResponse("200"), env)
                    IN IF ~env.encodeOK
                       THEN [h |-> Fire(h1, metricsResultContentEncodingFailed),
                             err |-> ErrPayloadMarshalling]
                       ELSE [h |-> Fire(h1, "gateway_payload200"), err |-> ErrNil]

\* Returns the request as the response; always succeeds
EchoAppHandlerHandle(h, res, binaryRequest, env) ==
    LET h0 == Call(h, "EchoAppHandler.Handle", TRUE)
        h1 == Fire(h0, metricsResultSuccess)
    IN [h |-> ChunkWrite(h1, binaryRequest, env), err |-> ErrNil]

AppHandle(appHandler, h, res, binaryRequest, env) ==
    IF appHandler = "echo"
    THEN EchoAppHandlerHandle(h, res, binaryRequest, env)
    ELSE BinaryHTTPAppHandlerHandle(h, res, binaryRequest, env)

----------------------------------------------------------------------------
(* EncapsulationHandler *)

NoResponse == SealedBody(NoContext, <<>>)

\* variant: the error is dropped and the empty response returned as a success
EncapsulationFailSwallowed(h, err) == [h |-> h, err |-> ErrNil, resp |-> NoResponse]

\* EncapsulationFail(err)
EncapsulationFail(h, err) == [h |-> h, err |-> err, resp |-> NoResponse]

\* The value of the identifier binaryResponse in DefaultEncapsulationHandler.Handle,
\* which that function does not bind: nothing, what the application handler
\* wrote, or unrelated bytes
UnboundResponses == {"nil", "written", "other"}

UnboundResponse(h, env) ==
    CASE env.binaryResponse = "nil" -> <<>>
      [] env.binaryResponse = "written" ->
            IF h.chunks = <<>> THEN <<>> ELSE h.chunks[Len(h.chunks)]
      [] OTHER -> <<"other">>

\* Returns [h, err, resp]
DefaultEncapsulationHandlerHandle(h, res, appHandler, outerRequest, encapsulatedReq, env) ==
    LET matches == MatchesConfig(res.gateway, encapsulatedReq)
        h1 == Call(h, "MatchesConfig", matches)
    IN IF ~matches
       THEN EncapsulationFail(Fire(h1, metricsResultConfigurationMismatch), ErrConfigMismatch)
       ELSE LET opened == CanOpen(res.gateway, encapsulatedReq, env)
                h2 == Call(h1, "DecapsulateRequest", opened)
            IN IF ~opened
               THEN EncapsulationFail(Fire(h2, metricsResultDecapsulationFailed), ErrEncapsulation)
               ELSE LET context == Context(res.gateway, encapsulatedReq)
                        a == AppHandle(appHandler, h2, res, encapsulatedReq.inner, env)
                    IN IF a.err # ErrNil
                       THEN EncapsulationFail(a.h, a.err)
                       ELSE LET h3 == Call(a.h, "EncapsulateResponse", env.sealOK)
                            IN IF ~env.sealOK
                               THEN EncapsulationFail(Fire(h3, metricsResultEncapsulationFailed),
                                                      ErrEncapsulation)
                               ELSE [h |-> h3, err |-> ErrNil,
                                     resp |-> SealedBody(context, UnboundResponse(h3, env))]

\* variant: the decapsulated plaintext is sealed together with the dump
MetadataEncapsulationHandlerHandleWithPlaintext(h, res, outerRequest, encapsulatedReq, env) ==
    LET matches == MatchesConfig(res.gateway, encapsulatedReq)
        h1 == Call(h, "MatchesConfig", matches)
    IN IF ~matches
       THEN EncapsulationFail(Fire(h1, metricsResultConfigurationMismatch), ErrConfigMismatch)
       ELSE LET opened == CanOpen(res.gateway, encapsulatedReq, env)
                h2 == Call(h1, "DecapsulateRequest", opened)
            IN IF ~opened
               THEN EncapsulationFail(Fire(h2, metricsResultDecapsulationFailed), ErrEncapsulation)
               ELSE LET context == Context(res.gateway, encapsulatedReq)
                        h3 == Call(h2, "DumpRequest", env.dumpOK)
                    IN IF ~env.dumpOK
                       THEN EncapsulationFail(h3, ErrGatewayInternalServer)
                       ELSE LET h4 == Call(h3, "EncapsulateResponse", env.sealOK)
                            IN IF ~env.sealOK
                               THEN EncapsulationFail(Fire(h4, metricsResultEncapsulationFailed),
                                                      ErrEncapsulation)
                               ELSE [h |-> Fire(h4, metricsResultSuccess), err |-> ErrNil,
                                     resp |-> SealedBody(context,
                                                 DumpRequest(outerRequest) \o encapsulatedReq.inner)]

\* Returns [h, err, resp]
MetadataEncapsulationHandlerHandle(h, res, outerRequest, encapsulatedReq, env) ==
    LET matches == MatchesConfig(res.gateway, encapsulatedReq)
        h1 == Call(h, "MatchesConfig", matches)
    IN IF ~matches
       THEN EncapsulationFail(Fire(h1, metricsResultConfigurationMismatch), ErrConfigMismatch)
       ELSE LET opened == CanOpen(res.gateway, encapsulatedReq, env)
                h2 == Call(h1, "DecapsulateRequest", opened)
            IN IF ~opened
               THEN EncapsulationFail(Fire(h2, metricsResultDecapsulationFailed), ErrEncapsulation)
               ELSE LET context == Context(res.gateway, encapsulatedReq)
                        h3 == Call(h2, "DumpRequest", env.dumpOK)
                    IN IF ~env.dumpOK
                       THEN EncapsulationFail(h3, ErrGatewayInternalServer)
                       ELSE LET h4 == Call(h3, "EncapsulateResponse", env.sealOK)
                            IN IF ~env.sealOK
                               THEN EncapsulationFail(Fire(h4, metricsResultEncapsulationFailed),
                                                      ErrEncapsulation)
                               ELSE [h |-> Fire(h4, metricsResultSuccess), err |-> ErrNil,
                                     resp |-> SealedBody(context, DumpRequest(outerRequest))]

\* variant: a handler is registered for every path
encapsulationHandlersCatchAll ==
    {defaultGatewayEndpoint, defaultEchoEndpoint, defaultMetadataEndpoint, "/unregistered"}

\* handlers[...] as installed by main()
encapsulationHandlers == {defaultGatewayEndpoint, defaultEchoEndpoint, defaultMetadataEndpoint}

EncapHandle(h, res, r, env) ==
    CASE r.path = defaultEchoEndpoint ->
            DefaultEncapsulationHandlerHandle(h, res, "echo", r, r.body, env)
      [] r.path = defaultMetadataEndpoint ->
            MetadataEncapsulationHandlerHandle(h, res, r, r.body, env)
      [] OTHER ->
            DefaultEncapsulationHandlerHandle(h, res, "bhttp", r, r.body, env)

----------------------------------------------------------------------------
(* gatewayResource *)

\* variant: the body is read and parsed before the handler is looked up
ohttpGatewayHandlerReadFirst(h, res, r, env) ==
    LET h1 == Call(h, "ReadAll", r.body.kind # "unreadable")
    IN IF r.body.kind = "unreadable"
       THEN httpError(Fire(h1, metricsResultInvalidContent), res, StatusBadRequest,
                      <<"Reading request body failed">>, r.method)
       ELSE LET h2 == Call(h1, "UnmarshalEncapsulatedRequest", r.body.kind = "encap")
            IN IF r.body.kind # "encap"
               THEN httpError(Fire(h2, metricsResultInvalidContent), res, StatusBadRequest,
                              <<"Reading request body failed">>, r.method)
               ELSE IF r.path \notin encapsulationHandlers
                    THEN httpError(h2, res, StatusBadRequest, <<"Unknown handler">>, r.method)
                    ELSE LET e == EncapHandle(h2, res, r, env)
                         IN IF e.err # ErrNil
                            THEN LET errorCode == ErrEncapsulationToGatewayStatusCode(e.err)
                                 IN httpError([e.h EXCEPT !.err = e.err], res, errorCode,
                                              <<StatusText(errorCode)>>, r.method)
                            ELSE LET h3 == SetHeader(e.h, "Content-Type", ohttpResponseContentType)
                                     h4 == SetHeader(h3, "Connection", "Keep-Alive")
                                     h5 == Write(h4, e.resp)
                                 IN ResponseStatus(h5, r.method, StatusOK)

ohttpGatewayHandler(h, res, r, env) ==
    IF r.path \notin encapsulationHandlers
    THEN httpError(h, res, StatusBadRequest, <<"Unknown handler">>, r.method)
    ELSE LET h1 == Call(h, "ReadAll", r.body.kind # "unreadable")
         IN IF r.body.kind = "unreadable"
            THEN httpError(Fire(h1, metricsResultInvalidContent), res, StatusBadRequest,
                           <<"Reading request body failed">>, r.method)
            ELSE LET h2 == Call(h1, "UnmarshalEncapsulatedRequest", r.body.kind = "encap")
                 IN IF r.body.kind # "encap"
                    THEN httpError(Fire(h2, metricsResultInvalidContent), res, StatusBadRequest,
                                   <<"Reading request body failed">>, r.method)
                    ELSE LET e == EncapHandle(h2, res, r, env)
                         IN IF e.err # ErrNil
                            THEN LET errorCode == ErrEncapsulationToGatewayStatusCode(e.err)
                                 IN httpError([e.h EXCEPT !.err = e.err], res, errorCode,
                                              <<StatusText(errorCode)>>, r.method)
                            ELSE LET h3 == SetHeader(e.h, "Content-Type", ohttpResponseContentType)
                                     h4 == SetHeader(h3, "Connection", "Keep-Alive")
                                     h5 == Write(h4, e.resp)
                                 IN ResponseStatus(h5, r.method, StatusOK)

\* variant: the chunked content type is served like message/ohttp-req
ohttpChunkedGatewayHandlerServed(h, res, r, env) == ohttpGatewayHandler(h, res, r, env)

ohttpChunkedGatewayHandler(h, res, r, env) == h

\* variant: the method check is missing
gatewayHandlerNoMethodCheck(res, r, env) ==
    LET metrics == NewHandlerState
        h1 == CASE r.contentType = ohttpRequestContentType ->
                       ohttpGatewayHandler(metrics, res, r, env)
                [] r.contentType = ohttpChunkedRequestContentType ->
                       ohttpChunkedGatewayHandler(metrics, res, r, env)
                [] OTHER -> metrics
    IN httpError(Fire(h1, metricsResultInvalidContentType), res, StatusBadRequest,
                 <<"Invalid content type: ", r.contentType>>, r.method)

\* the switch on Content-Type has no return in its arms: the statements after
\* it run for every POST
gatewayHandler(res, r, env) ==
    LET metrics == NewHandlerState
    IN IF r.method # "POST"
       THEN httpError(Fire(metrics, metricsResultInvalidMethod), res, StatusBadRequest,
                      <<"Invalid method: ", r.method>>, r.method)
       ELSE LET h1 == CASE r.contentType = ohttpRequestContentType ->
                              ohttpGatewayHandler(metrics, res, r, env)
                       [] r.contentType = ohttpChunkedRequestContentType ->
                              ohttpChunkedGatewayHandler(metrics, res, r, env)
                       [] OTHER -> metrics
            IN httpError(Fire(h1, metricsResultInvalidContentType), res, StatusBadRequest,
                         <<"Invalid content type: ", r.contentType>>, r.method)

----------------------------------------------------------------------------
(* Key discovery *)

\* variant: the upper end n is itself a possible result
IntnInclusive(n) == (0..(IntnEdge - 1)) \cup {n \div 2} \cup ((n - IntnEdge)..n)

\* rand.Intn(n) yields a value of [0, n); the values at both ends and the
\* middle stand for the range
Intn(n) == (0..(IntnEdge - 1)) \cup {n \div 2} \cup ((n - IntnEdge)..(n - 1))

\* fmt.Sprintf("max-age=%d, private", maxAge)
CacheControl(maxAge) == <<"max-age=", maxAge, ", private">>

\* rand.Seed(time.Now().UnixNano()) on the source all requests share
Seed(seed) == [seed |-> seed, draws |-> 0]

\* the source before any handler has seeded it
Unseeded == Seed(0)

\* variant: the legacy endpoint hands out every stored configuration
legacyConfigHandlerAllConfigs(h, res, r, n) ==
    IF res.legacyKeyID \notin KeyMap(res.gateway)
    THEN httpError(Fire(h, metricsResultConfigsUnavalable), res, StatusInternalServerError,
                   <<"Config unavailable">>, r.method)
    ELSE LET maxAge == twelveHours + n
             h1 == SetHeader(h, "Cache-Control", CacheControl(maxAge))
             h2 == Write(h1, MarshalConfigs(res.gateway))
         IN ResponseStatus(h2, r.method, StatusOK)

\* variant: Cache-Control is set before the configuration is looked up
legacyConfigHandlerCacheFirst(h, res, r, n) ==
    LET maxAge == twelveHours + n
        h1 == SetHeader(h, "Cache-Control", CacheControl(maxAge))
    IN IF res.legacyKeyID \notin KeyMap(res.gateway)
       THEN httpError(Fire(h1, metricsResultConfigsUnavalable), res, StatusInternalServerError,
                      <<"Config unavailable">>, r.method)
       ELSE LET h2 == Write(h1, Marshal(ConfigFor(res.gateway, res.legacyKeyID)))
            IN ResponseStatus(h2, r.method, StatusOK)

\* n is the value rand.Intn(twentyFourHours) returned
legacyConfigHandler(h, res, r, n) ==
    IF res.legacyKeyID \notin KeyMap(res.gateway)
    THEN httpError(Fire(h, metricsResultConfigsUnavalable), res, StatusInternalServerError,
                   <<"Config unavailable">>, r.method)
    ELSE LET maxAge == twelveHours + n
             h1 == SetHeader(h, "Cache-Control", CacheControl(maxAge))
             h2 == Write(h1, Marshal(ConfigFor(res.gateway, res.legacyKeyID)))
         IN ResponseStatus(h2, r.method, StatusOK)

\* n is the value rand.Intn(twentyFourHours) returned
configHandler(h, res, r, n) ==
    LET maxAge == twelveHours + n
        h1 == SetHeader(h, "Cache-Control", CacheControl(maxAge))
        h2 == SetHeader(h1, "Content-Type", "application/ohttp-keys")
        h3 == Write(h2, MarshalConfigs(res.gateway))
    IN ResponseStatus(h3, r.method, StatusOK)

----------------------------------------------------------------------------
(* Inputs *)

Methods == {"POST", "GET"}

ContentTypes == {ohttpRequestContentType, ohttpChunkedRequestContentType, "text/plain", ""}

Paths == encapsulationHandlers \cup {"/unregistered"}

Keys == 1..MaxKey

\* key IDs a client may put in a request: the stored ones and CONFIG_ID ^ 0xFF
RequestKeyIDs == {defaultConfigID, LegacyConfigID(defaultConfigID), 255 - defaultConfigID}

RequestSuites ==
    { Suite(KEM_X25519_KYBER768_DRAFT00, KDF_HKDF_SHA256, AEAD_AES128GCM),
      Suite(KEM_X25519_HKDF_SHA256, KDF_HKDF_SHA256, AEAD_AES128GCM),
      Suite(KEM_X25519_KYBER768_DRAFT00, "HKDF_SHA384", AEAD_AES128GCM),
      Suite(KEM_X25519_HKDF_SHA256, KDF_HKDF_SHA256, "AES256GCM") }

InnerPayloads ==
    {GarbagePayload, BinaryRequest("allowed.example"), BinaryRequest("forbidden.example")}

\* a body that parses as an encapsulated request
EncapsulatedRequests ==
    [kind : {"encap"}, keyID : RequestKeyIDs, suite : RequestSuites, key : Keys,
     tampered : BOOLEAN, inner : InnerPayloads]

\* a body that cannot be read, or does not parse
BrokenBody(kind) ==
    [kind |-> kind, keyID |-> 0,
     suite |-> Suite(KEM_X25519_KYBER768_DRAFT00, KDF_HKDF_SHA256, AEAD_AES128GCM),
     key |-> 1, tampered |-> FALSE, inner |-> GarbagePayload]

Bodies == EncapsulatedRequests \cup {BrokenBody("unreadable"), BrokenBody("garbage")}

Requests == [method : Methods, contentType : ContentTypes, path : Paths, body : Bodies]

NoRequest ==
    [method |-> "", contentType |-> "", path |-> "", body |-> BrokenBody("none")]

\* outcomes of the calls the handler does not control
Envs ==
    [suiteOK : BOOLEAN, fetchOK : BOOLEAN, encodeOK : BOOLEAN, sealOK : BOOLEAN,
     dumpOK : BOOLEAN, wOuter : BOOLEAN, binaryResponse : UnboundResponses]

DefaultEnv ==
    [suiteOK |-> TRUE, fetchOK |-> TRUE, encodeOK |-> TRUE, sealOK |-> TRUE,
     dumpOK |-> TRUE, wOuter |-> FALSE, binaryResponse |-> "nil"]

\* No outcome is consulted before the request has been decapsulated, so only a
\* request that reaches an encapsulation handler and may be opened is paired
\* with every outcome
EnvsFor(res, r) ==
    IF /\ r.method = "POST"
       /\ r.contentType = ohttpRequestContentType
       /\ r.path \in encapsulationHandlers
       /\ r.body.kind = "encap"
       /\ MayOpen(res.gateway, r.body)
    THEN Envs
    ELSE {DefaultEnv}

----------------------------------------------------------------------------
(* Requests served at the same time *)

Tasks == 1..NTasks

IdleTask == [pc |-> "idle", req |-> NoRequest, env |-> DefaultEnv]

\* the locals of a handler invocation: metrics and writer (h), context, response
NoFrame == [h |-> NewHandlerState, context |-> NoContext, resp |-> NoResponse]

NoTwin == [req |-> NoRequest, h |-> NewHandlerState]

\* variant: every invocation keeps its locals in one place
FrameOfShared(t) == 1

\* net/http serves each request on a goroutine of its own, and metrics,
\* context and the response are locals of the handler invocation
FrameOf(t) == t

\* what a client that holds the public form of configuration c sends
SealedFor(c, inner) ==
    [kind |-> "encap", keyID |-> c.keyID, suite |-> c.suite, key |-> c.key,
     tampered |-> FALSE, inner |-> inner]

Post(path, body) ==
    [method |-> "POST", contentType |-> ohttpRequestContentType, path |-> path, body |-> body]

Get(path) == [method |-> "GET", contentType |-> "", path |-> path, body |-> BrokenBody("none")]

\* gateway requests in flight together: to the primary and to the legacy
\* configuration, to an unknown key ID, to a forbidden target, and a GET
ConcRequests ==
    LET primary == PrivateConfigs(defaultConfigID)[1]
        legacy == PrivateConfigs(defaultConfigID)[2]
    IN { Post(defaultGatewayEndpoint, SealedFor(primary, BinaryRequest("allowed.example"))),
         Post(defaultEchoEndpoint, SealedFor(legacy, GarbagePayload)),
         Post(defaultGatewayEndpoint, SealedFor(primary, BinaryRequest("forbidden.example"))),
         Post(defaultGatewayEndpoint,
              [SealedFor(primary, GarbagePayload) EXCEPT !.keyID = 255 - defaultConfigID]),
         [Post(defaultGatewayEndpoint, BrokenBody("garbage")) EXCEPT !.method = "GET"] }

ConfigRequests == {Get(defaultConfigEndpoint), Get(defaultLegacyConfigEndpoint)}

\* the request gets as far as EncapsulationHandler.Handle
ReachesHandle(r) ==
    /\ r.method = "POST"
    /\ r.contentType = ohttpRequestContentType
    /\ r.path \in encapsulationHandlers
    /\ r.body.kind = "encap"

----------------------------------------------------------------------------
(* State machine *)

Init ==
    /\ s \in {NewGatewayResource(d, o, defaultConfigID) : d \in BOOLEAN, o \in AllowLists}
    /\ pc = "idle"
    /\ req = NoRequest
    /\ w = NewResponseWriter
    /\ bag = <<>>
    /\ calls = <<>>
    /\ chunks = <<>>
    /\ handlerErr = ErrNil
    /\ tasks = [t \in Tasks |-> IdleTask]
    /\ frames = [f \in Tasks |-> NoFrame]
    /\ rng = Unseeded
    /\ boot = main(DefaultStartupEnv(s.debugResponse, s.allowedOrigins))
    /\ twin = NoTwin

\* the server calls gatewayHandler for a request to one of the gateway endpoints
GatewayRequest ==
    /\ pc = "idle"
    /\ \E r \in Requests : \E env \in EnvsFor(s, r) :
          \E h \in {gatewayHandler(s, r, env)} :
             /\ req' = r
             /\ w' = h.w
             /\ bag' = h.bag
             /\ calls' = h.calls
             /\ chunks' = h.chunks
             /\ handlerErr' = h.err
    /\ pc' = "done"
    /\ UNCHANGED <<s, tasks, frames, rng, boot, twin>>

\* the response is complete; the next request gets a fresh writer and a fresh bag
NextRequest ==
    /\ pc = "done"
    /\ pc' = "idle"
    /\ req' = NoRequest
    /\ w' = NewResponseWriter
    /\ bag' = <<>>
    /\ calls' = <<>>
    /\ chunks' = <<>>
    /\ handlerErr' = ErrNil
    /\ UNCHANGED <<s, tasks, frames, rng, boot, twin>>

Next == GatewayRequest \/ NextRequest

Spec == Init /\ [][Next]_vars

----------------------------------------------------------------------------
(* State machine of the server handling NTasks requests at the same time:
   one action per stretch of a handler between its uses of the gateway, of
   its locals and of the random source *)

seqVars == <<pc, req, w, bag, calls, chunks, handlerErr, boot, twin>>

SetTask(t, task) == tasks' = [tasks EXCEPT ![t] = task]

SetFrame(t, frame) == frames' = [frames EXCEPT ![FrameOf(t)] = frame]

\* gatewayHandler up to the call of EncapsulationHandler.Handle; a request that
\* does not get there is answered at once
Accept(t) ==
    /\ tasks[t].pc = "idle"
    /\ \E r \in ConcRequests :
          IF ReachesHandle(r)
          THEN /\ SetTask(t, [pc |-> "handle", req |-> r, env |-> DefaultEnv])
               /\ SetFrame(t, [NoFrame EXCEPT !.h =
                       Call(Call(NewHandlerState, "ReadAll", TRUE),
                            "UnmarshalEncapsulatedRequest", TRUE)])
          ELSE /\ SetTask(t, [pc |-> "done", req |-> r, env |-> DefaultEnv])
               /\ SetFrame(t, [NoFrame EXCEPT !.h = gatewayHandler(s, r, DefaultEnv)])
    /\ UNCHANGED <<seqVars, s, rng>>

\* DefaultEncapsulationHandler.Handle: MatchesConfig and DecapsulateRequest
Decapsulate(t) ==
    /\ tasks[t].pc = "handle"
    /\ LET frame == frames[FrameOf(t)]
           encapsulatedReq == tasks[t].req.body
           matches == MatchesConfig(s.gateway, encapsulatedReq)
           h1 == Call(frame.h, "MatchesConfig", matches)
           opened == CanOpen(s.gateway, encapsulatedReq, tasks[t].env)
           h2 == Call(h1, "DecapsulateRequest", opened)
       IN IF ~matches
          THEN /\ SetFrame(t, [frame EXCEPT !.h =
                       [Fire(h1, metricsResultConfigurationMismatch)
                            EXCEPT !.err = ErrConfigMismatch]])
               /\ SetTask(t, [tasks[t] EXCEPT !.pc = "reply"])
          ELSE IF ~opened
               THEN /\ SetFrame(t, [frame EXCEPT !.h =
                            [Fire(h2, metricsResultDecapsulationFailed)
                                 EXCEPT !.err = ErrEncapsulation]])
                    /\ SetTask(t, [tasks[t] EXCEPT !.pc = "reply"])
               ELSE /\ SetFrame(t, [frame EXCEPT !.h = h2,
                                                 !.context = Context(s.gateway, encapsulatedReq)])
                    /\ SetTask(t, [tasks[t] EXCEPT !.pc = "app"])
    /\ UNCHANGED <<seqVars, s, rng>>

\* DefaultEncapsulationHandler.Handle: h.appHandler.Handle
InnerHandler(t) ==
    /\ tasks[t].pc = "app"
    /\ LET frame == frames[FrameOf(t)]
           r == tasks[t].req
           a == AppHandle(IF r.path = defaultEchoEndpoint THEN "echo" ELSE "bhttp",
                          frame.h, s, r.body.inner, tasks[t].env)
       IN /\ SetFrame(t, [frame EXCEPT !.h = [a.h EXCEPT !.err = a.err]])
          /\ SetTask(t, [tasks[t] EXCEPT !.pc = IF a.err # ErrNil THEN "reply" ELSE "seal"])
    /\ UNCHANGED <<seqVars, s, rng>>

\* DefaultEncapsulationHandler.Handle: context.EncapsulateResponse
EncapsulateResponse(t) ==
    /\ tasks[t].pc = "seal"
    /\ LET frame == frames[FrameOf(t)]
           env == tasks[t].env
           h3 == Call(frame.h, "EncapsulateResponse", env.sealOK)
       IN IF ~env.sealOK
          THEN SetFrame(t, [frame EXCEPT !.h =
                   [Fire(h3, metricsResultEncapsulationFailed) EXCEPT !.err = ErrEncapsulation]])
          ELSE SetFrame(t, [frame EXCEPT !.h = h3,
                   !.resp = SealedBody(frame.context, UnboundResponse(h3, env))])
    /\ SetTask(t, [tasks[t] EXCEPT !.pc = "reply"])
    /\ UNCHANGED <<seqVars, s, rng>>

\* ohttpGatewayHandler after Handle has returned, and the statements of
\* gatewayHandler after the switch
Reply(t) ==
    /\ tasks[t].pc = "reply"
    /\ LET frame == frames[FrameOf(t)]
           r == tasks[t].req
           h == frame.h
           errorCode == ErrEncapsulationToGatewayStatusCode(h.err)
           h1 == IF h.err # ErrNil
                 THEN httpError(h, s, errorCode, <<StatusText(errorCode)>>, r.method)
                 ELSE LET h3 == SetHeader(h, "Content-Type", ohttpResponseContentType)
                          h4 == SetHeader(h3, "Connection", "Keep-Alive")
                          h5 == Write(h4, frame.resp)
                      IN ResponseStatus(h5, r.method, StatusOK)
           h2 == httpError(Fire(h1, metricsResultInvalidContentType), s, StatusBadRequest,
                           <<"Invalid content type: ", r.contentType>>, r.method)
       IN SetFrame(t, [frame EXCEPT !.h = h2])
    /\ SetTask(t, [tasks[t] EXCEPT !.pc = "done"])
    /\ UNCHANGED <<seqVars, s, rng>>

ConfigAvailable(r) ==
    r.path = defaultLegacyConfigEndpoint => s.legacyKeyID \in KeyMap(s.gateway)

\* configHandler and legacyConfigHandler up to and including rand.Seed
ConfigSeed(t) ==
    /\ tasks[t].pc = "idle"
    /\ \E r \in ConfigRequests :
          /\ SetTask(t, [pc |-> "seeded", req |-> r, env |-> DefaultEnv])
          /\ \E now \in 1..MaxSeed :
                rng' = IF ConfigAvailable(r) THEN Seed(now) ELSE rng
    /\ SetFrame(t, NoFrame)
    /\ UNCHANGED <<seqVars, s>>

\* configHandler and legacyConfigHandler from rand.Intn on
ConfigReply(t) ==
    /\ tasks[t].pc = "seeded"
    /\ LET frame == frames[FrameOf(t)]
           r == tasks[t].req
       IN \E n \in Intn(twentyFourHours) :
             SetFrame(t, [frame EXCEPT !.h =
                 IF r.path = defaultConfigEndpoint
                 THEN configHandler(frame.h, s, r, n)
                 ELSE legacyConfigHandler(frame.h, s, r, n)])
    /\ rng' = IF ConfigAvailable(tasks[t].req) THEN [rng EXCEPT !.draws = @ + 1] ELSE rng
    /\ SetTask(t, [tasks[t] EXCEPT !.pc = "done"])
    /\ UNCHANGED <<seqVars, s>>

\* the handler has returned and the response is on the wire
Finish(t) ==
    /\ tasks[t].pc = "done"
    /\ SetTask(t, IdleTask)
    /\ SetFrame(t, NoFrame)
    /\ UNCHANGED <<seqVars, s, rng>>

NextConc ==
    \E t \in Tasks :
        \/ Accept(t)
        \/ Decapsulate(t)
        \/ InnerHandler(t)
        \/ EncapsulateResponse(t)
        \/ Reply(t)
        \/ ConfigSeed(t)
        \/ ConfigReply(t)
        \/ Finish(t)

SpecConc == Init /\ [][NextConc]_vars

\* a handler that has been entered keeps running until it returns
SpecConcFair ==
    /\ Init
    /\ [][NextConc]_vars
    /\ \A t \in Tasks :
          WF_vars(Decapsulate(t) \/ InnerHandler(t) \/ EncapsulateResponse(t)
                     \/ Reply(t) \/ ConfigReply(t))

----------------------------------------------------------------------------
(* State machine of a request handled twice, by two gateways that differ in
   GATEWAY_DEBUG only *)

OtherDebug(res) == [res EXCEPT !.debugResponse = ~@]

\* gatewayHandler on the same request and the same outcomes under both settings
GatewayRequestPair ==
    /\ pc = "idle"
    /\ \E r \in Requests : \E env \in EnvsFor(s, r) :
          \E h \in {gatewayHandler(s, r, env)} :
             /\ req' = r
             /\ w' = h.w
             /\ bag' = h.bag
             /\ calls' = h.calls
             /\ chunks' = h.chunks
             /\ handlerErr' = h.err
             /\ twin' = [req |-> r, h |-> gatewayHandler(OtherDebug(s), r, env)]
    /\ pc' = "done"
    /\ UNCHANGED <<s, tasks, frames, rng, boot>>

NextRequestPair ==
    /\ pc = "done"
    /\ pc' = "idle"
    /\ req' = NoRequest
    /\ w' = NewResponseWriter
    /\ bag' = <<>>
    /\ calls' = <<>>
    /\ chunks' = <<>>
    /\ handlerErr' = ErrNil
    /\ twin' = NoTwin
    /\ UNCHANGED <<s, tasks, frames, rng, boot>>

NextPair == GatewayRequestPair \/ NextRequestPair

SpecPair == Init /\ [][NextPair]_vars

----------------------------------------------------------------------------
(* State machine of two requests handled by the same gateway, to compare what
   the allow list decides for them *)

OuterHosts == {"gateway.example", "forbidden.example"}

TargetHosts == {"allowed.example", "forbidden.example"}

InnerRequests ==
    {BinaryRequest(host) : host \in TargetHosts}
        \cup {BinaryRequestTo(host, "allowed.example") : host \in TargetHosts}

\* requests a client of the gateway sends: outer Host, path, the configuration
\* it seals under, and the inner request
PostTo(outerHost, path, body) ==
    [method |-> "POST", host |-> outerHost, contentType |-> ohttpRequestContentType,
     path |-> path, body |-> body]

HostRequests ==
    {PostTo(outerHost, path, SealedFor(PrivateConfigs(defaultConfigID)[k], inner)) :
        path \in {defaultGatewayEndpoint, defaultEchoEndpoint},
        k \in 1..2, inner \in InnerRequests, outerHost \in OuterHosts}

HostEnvs == {[DefaultEnv EXCEPT !.fetchOK = ok] : ok \in BOOLEAN}

GatewayRequestTwo ==
    /\ pc = "idle"
    /\ \E r1, r2 \in HostRequests : \E env1, env2 \in HostEnvs :
          \E h \in {gatewayHandler(s, r1, env1)} :
             /\ req' = r1
             /\ w' = h.w
             /\ bag' = h.bag
             /\ calls' = h.calls
             /\ chunks' = h.chunks
             /\ handlerErr' = h.err
             /\ twin' = [req |-> r2, h |-> gatewayHandler(s, r2, env2)]
    /\ pc' = "done"
    /\ UNCHANGED <<s, tasks, frames, rng, boot>>

NextTwo == GatewayRequestTwo \/ NextRequestPair

SpecTwo == Init /\ [][NextTwo]_vars

----------------------------------------------------------------------------
(* State machine of the key-discovery endpoints of any gatewayResource *)

\* CONFIGURATION_ID values the process is started with
KeyDiscoveryConfigIDs == {defaultConfigID, 127, 128, 255}

\* ohttp.NewDefaultGateway over any list of the configurations derived from
\* the seed
StoredConfigLists(configID) ==
    LET config == PrivateConfigs(configID)[1]
        legacyConfig == PrivateConfigs(configID)[2]
    IN {<<>>, <<config>>, <<legacyConfig>>, <<config, legacyConfig>>}

\* a gatewayResource as a struct literal builds it: the gateway field holds
\* whatever list of configurations it was given
GatewayResources(configID) ==
    UNION {{[NewGatewayResource(d, o, configID) EXCEPT !.gateway = g] :
               g \in StoredConfigLists(configID)} : d \in BOOLEAN, o \in AllowLists}

KeyRequests ==
    {[Get(path) EXCEPT !.method = m] : m \in Methods, path \in {defaultConfigEndpoint, defaultLegacyConfigEndpoint}}

InitKeys ==
    /\ \E configID \in KeyDiscoveryConfigIDs :
          /\ s \in GatewayResources(configID)
          /\ boot = main([DefaultStartupEnv(s.debugResponse, s.allowedOrigins)
                              EXCEPT !.configID = configID])
    /\ pc = "idle"
    /\ req = NoRequest
    /\ w = NewResponseWriter
    /\ bag = <<>>
    /\ calls = <<>>
    /\ chunks = <<>>
    /\ handlerErr = ErrNil
    /\ tasks = [t \in Tasks |-> IdleTask]
    /\ frames = [f \in Tasks |-> NoFrame]
    /\ rng = Unseeded
    /\ twin = NoTwin

\* the server calls configHandler or legacyConfigHandler
KeyDiscoveryRequest ==
    /\ pc = "idle"
    /\ \E r \in KeyRequests : \E n \in Intn(twentyFourHours) : \E now \in 1..MaxSeed :
          \E h \in {IF r.path = defaultConfigEndpoint
                    THEN configHandler(NewHandlerState, s, r, n)
                    ELSE legacyConfigHandler(NewHandlerState, s, r, n)} :
             /\ req' = r
             /\ w' = h.w
             /\ bag' = h.bag
             /\ calls' = h.calls
             /\ chunks' = h.chunks
             /\ handlerErr' = h.err
             /\ rng' = IF ConfigAvailable(r) THEN [Seed(now) EXCEPT !.draws = 1] ELSE rng
    /\ pc' = "done"
    /\ UNCHANGED <<s, tasks, frames, boot, twin>>

NextKeys == KeyDiscoveryRequest \/ NextRequest

SpecKeys == InitKeys /\ [][NextKeys]_vars

----------------------------------------------------------------------------
(* State machine of the start of the process *)

InitStartup ==
    /\ boot \in {NotStarted(e) : e \in StartupEnvs}
    /\ s = NoResource
    /\ pc = "idle"
    /\ req = NoRequest
    /\ w = NewResponseWriter
    /\ bag = <<>>
    /\ calls = <<>>
    /\ chunks = <<>>
    /\ handlerErr = ErrNil
    /\ tasks = [t \in Tasks |-> IdleTask]
    /\ frames = [f \in Tasks |-> NoFrame]
    /\ rng = Unseeded
    /\ twin = NoTwin

\* main() runs: it builds the gatewayResource, or panics
Main ==
    /\ boot.pc = "start"
    /\ boot' = main(boot.env)
    /\ s' = IF boot'.pc = "serving"
            THEN NewGatewayResource(boot.env.debug, boot.env.origins, boot.env.configID)
            ELSE s
    /\ UNCHANGED <<pc, req, w, bag, calls, chunks, handlerErr, tasks, frames, rng, twin>>

NextStartup == Main

SpecStartup == InitStartup /\ [][NextStartup]_vars

----------------------------------------------------------------------------
(* Observations on a handled request *)

Done == pc = "done"

Fired(result) == \E i \in DOMAIN bag : bag[i] = ResultLabel(result)

Called(op) == \E i \in DOMAIN calls : calls[i].op = op

CalledWith(op, ok) == \E i \in DOMAIN calls : calls[i] = [op |-> op, ok |-> ok]

\* the body was parsed as an encapsulated request and handed to an encapsulation handler
Parsed == CalledWith("UnmarshalEncapsulatedRequest", TRUE)

Decapsulated == CalledWith("DecapsulateRequest", TRUE)

AppHandlerCalled == Called("BinaryHTTPAppHandler.Handle") \/ Called("EchoAppHandler.Handle")

\* after a successful decapsulation the handler failed before sealing a response
ApplicationTierFailure == Decapsulated /\ ~Called("EncapsulateResponse")

\* the encapsulation handler returned a response
HandlerSucceeded == CalledWith("EncapsulateResponse", TRUE)

StoredConfig == ConfigFor(s.gateway, req.body.keyID)

OutcomeLabels ==
    { metricsResultConfigurationMismatch, metricsResultDecapsulationFailed,
      metricsResultEncapsulationFailed, metricsResultContentDecodingFailed,
      metricsResultContentEncodingFailed, metricsResultRequestTranslationFailed,
      metricsResultResponseTranslationFailed, metricsResultTargetRequestForbidden,
      metricsResultTargetRequestFailed, metricsResultSuccess, metricsResultInvalidMethod,
      metricsResultInvalidContentType, metricsResultInvalidContent }

OutcomesFired == {i \in DOMAIN bag : bag[i].name \in OutcomeLabels}

StatusesFired == {i \in DOMAIN bag : bag[i].name = "response_status"}

----------------------------------------------------------------------------
(* Claims *)

\* C1: after a successful decapsulation, an application-tier failure of the
\* inner handler is sealed with the request's context and returned with outer
\* status 200, never with an outer non-200 status.
C1_ApplicationFailureSealed ==
    (Done /\ ApplicationTierFailure) =>
        /\ w.code = StatusOK
        /\ \E i \in DOMAIN w.body :
              /\ w.body[i].kind = "ohttp-res"
              /\ w.body[i].ctx = Context(s.gateway, req.body)

\* C2: whatever the request and the handler outcome, the outer status written
\* by gatewayHandler is 200, 400 or 401.
C2_OuterStatusSet ==
    Done => w.code \in {StatusOK, StatusBadRequest, StatusUnauthorized}

\* C2 witness: an application-tier failure (forbidden target) has been answered.
C2_Witness ==
    /\ Done
    /\ ApplicationTierFailure
    /\ Fired(metricsResultTargetRequestForbidden)
    /\ w.code = StatusBadRequest

\* C3: an encapsulated request whose key_id no stored configuration holds is
\* answered 401 with ConfigMismatch fired and DecapsulateRequest never invoked;
\* a request that is decapsulated was opened with the configuration stored
\* under its key_id, and its response is sealed with that configuration's context.
C3_KeySelection ==
    (Done /\ Parsed) =>
        /\ req.body.keyID \notin KeyMap(s.gateway) =>
              /\ w.code = StatusUnauthorized
              /\ Fired(metricsResultConfigurationMismatch)
              /\ ~Called("DecapsulateRequest")
        /\ Decapsulated =>
              /\ req.body.keyID \in KeyMap(s.gateway)
              /\ req.body.key = StoredConfig.key
              /\ \A i \in DOMAIN w.body :
                    w.body[i].kind = "ohttp-res" =>
                        w.body[i].ctx = [keyID |-> req.body.keyID, key |-> StoredConfig.key]

\* C3 witness: a parsed request with an unknown key_id has been answered.
C3_Witness ==
    /\ Done
    /\ Parsed
    /\ req.body.keyID \notin KeyMap(s.gateway)
    /\ w.code = StatusUnauthorized

\* C4 (as stated): a request whose key_id equals a stored configuration's
\* key_id but whose KEM, KDF or AEAD differs is answered 401, not 400.
C4_SuiteMismatchUnauthorized ==
    (/\ Done
     /\ Parsed
     /\ req.body.keyID \in KeyMap(s.gateway)
     /\ req.body.suite # StoredConfig.suite) => w.code = StatusUnauthorized

\* C4 (amended): a request whose key_id equals a stored configuration's key_id
\* but whose KEM differs from that configuration's passes the key_id match and
\* fails decapsulation: outer status 400 with DecapsulationFailed, never 401
\* and never ConfigMismatch.
C4_KemMismatchBadRequest ==
    (/\ Done
     /\ Parsed
     /\ req.body.keyID \in KeyMap(s.gateway)
     /\ req.body.suite.kem # StoredConfig.suite.kem) =>
        /\ w.code = StatusBadRequest
        /\ Fired(metricsResultDecapsulationFailed)
        /\ ~Fired(metricsResultConfigurationMismatch)
        /\ CalledWith("MatchesConfig", TRUE)

\* C4 witness: a request with the primary key_id, sealed to the primary key
\* under the legacy KEM, has been answered.
C4_Witness ==
    /\ Done
    /\ Parsed
    /\ req.body.keyID = defaultConfigID
    /\ req.body.key = StoredConfig.key
    /\ req.body.suite.kem = KEM_X25519_HKDF_SHA256
    /\ w.code = StatusBadRequest

\* C5: a request that matches a stored configuration but was tampered with, or
\* was sealed to another key pair with the same key_id, is answered 400 with
\* DecapsulationFailed; neither the inner handler nor EncapsulateResponse runs.
C5_TamperRejected ==
    (/\ Done
     /\ CalledWith("MatchesConfig", TRUE)
     /\ (req.body.tampered \/ req.body.key # StoredConfig.key)) =>
        /\ w.code = StatusBadRequest
        /\ Fired(metricsResultDecapsulationFailed)
        /\ ~AppHandlerCalled
        /\ ~Called("DumpRequest")
        /\ ~Called("client.Do")
        /\ ~Called("EncapsulateResponse")

\* C5 witness: a tampered request under the stored suite and key has been answered.
C5_Witness ==
    /\ Done
    /\ CalledWith("MatchesConfig", TRUE)
    /\ req.body.tampered
    /\ req.body.key = StoredConfig.key
    /\ req.body.suite = StoredConfig.suite
    /\ CalledWith("DecapsulateRequest", FALSE)

\* C6: when the handler returns a response, the outer response is 200 with
\* Content-Type message/ohttp-res and Connection Keep-Alive, and its body is
\* exactly the marshalled encapsulated response, nothing before or after it.
C6_SuccessResponse ==
    (Done /\ HandlerSucceeded) =>
        /\ w.code = StatusOK
        /\ w.sent["Content-Type"] = ohttpResponseContentType
        /\ w.sent["Connection"] = "Keep-Alive"
        /\ Len(w.body) = 1
        /\ w.body[1].kind = "ohttp-res"

\* C7: within one request's bag no label is fired twice.
C7_SingleFire ==
    Done => \A i, j \in DOMAIN bag : bag[i] = bag[j] => i = j

\* C8: every gateway request fires exactly one outcome label of the closed set.
C8_OneOutcome ==
    Done => Cardinality(OutcomesFired) = 1

\* C9: every gateway request fires exactly one response-status label, prefixed
\* by the outer method, whose status is the outer status sent.
C9_OneResponseStatus ==
    Done =>
        /\ Cardinality(StatusesFired) = 1
        /\ \A i \in StatusesFired : bag[i] = StatusLabel(req.method, w.code)

\* C10: a request whose method is not POST is answered 400 with InvalidMethod
\* fired, whatever its content type and body; the body is not read and no
\* encapsulation handler is invoked.
C10_InvalidMethod ==
    (Done /\ req.method # "POST") =>
        /\ w.code = StatusBadRequest
        /\ Fired(metricsResultInvalidMethod)
        /\ calls = <<>>
        /\ chunks = <<>>

\* C10 witness: a GET that carries an intact encapsulated request for the
\* primary configuration, with the gateway content type, has been answered.
C10_Witness ==
    /\ Done
    /\ req.method = "GET"
    /\ req.contentType = ohttpRequestContentType
    /\ req.path = defaultEchoEndpoint
    /\ req.body.kind = "encap"
    /\ MayOpen(s.gateway, req.body)
    /\ w.code = StatusBadRequest

\* the request reached BinaryHTTPAppHandler and its payload decoded as a binary-HTTP request
InnerRequestDecoded ==
    /\ Called("BinaryHTTPAppHandler.Handle")
    /\ CanUnmarshalBinaryRequest(req.body.inner)

InnerHost == RequestHost(req.body.inner)

\* C11 (first half): a POST whose Content-Type is absent or not
\* message/ohttp-req is answered 400 with InvalidContentType fired.
C11_InvalidContentTypeRejected ==
    (Done /\ req.method = "POST" /\ req.contentType # ohttpRequestContentType) =>
        /\ w.code = StatusBadRequest
        /\ Fired(metricsResultInvalidContentType)

\* C11: a POST whose Content-Type is absent or not message/ohttp-req is
\* answered 400 with InvalidContentType fired, and InvalidContentType is fired
\* only for such requests, never for a POST with message/ohttp-req.
C11_InvalidContentType ==
    /\ C11_InvalidContentTypeRejected
    /\ (Done /\ Fired(metricsResultInvalidContentType)) =>
          (req.method = "POST" /\ req.contentType # ohttpRequestContentType)

\* C12: with a non-empty allow list an inner request whose Host is not in it
\* fails with ErrGatewayTargetForbidden, fires TargetRequestForbidden and never
\* reaches client.Do; with no allow list, or a Host in it, client.Do is invoked.
C12_AllowList ==
    (Done /\ InnerRequestDecoded) =>
        IF s.allowedOrigins # NilOrigins /\ InnerHost \notin s.allowedOrigins
        THEN /\ handlerErr = ErrGatewayTargetForbidden
             /\ Fired(metricsResultTargetRequestForbidden)
             /\ ~Called("client.Do")
        ELSE /\ Called("client.Do")
             /\ ~Fired(metricsResultTargetRequestForbidden)
             /\ handlerErr # ErrGatewayTargetForbidden

\* C12 witness: under the allow list {allowed.example} an inner request to
\* forbidden.example has been refused.
C12_Witness ==
    /\ Done
    /\ InnerRequestDecoded
    /\ s.allowedOrigins = {"allowed.example"}
    /\ InnerHost = "forbidden.example"
    /\ handlerErr = ErrGatewayTargetForbidden

\* the request is a POST to a gateway endpoint carrying an intact request that
\* a client sealed under the public configuration stored for its key_id
FromClientOf(path) ==
    /\ req.method = "POST"
    /\ req.contentType = ohttpRequestContentType
    /\ req.path = path
    /\ req.body.kind = "encap"
    /\ MayOpen(s.gateway, req.body)
    /\ req.body.suite = StoredConfig.suite

SealNotFailed == ~CalledWith("EncapsulateResponse", FALSE)

\* C13: an inner request to a host on the allow list, whose fetch succeeds (and
\* whose response is encoded and sealed), yields outer status 200, a sealed
\* inner response with status 200, and the Success metric.
C13_AllowedTarget ==
    (/\ Done
     /\ FromClientOf(defaultGatewayEndpoint)
     /\ InnerRequestDecoded
     /\ s.allowedOrigins # NilOrigins
     /\ InnerHost \in s.allowedOrigins
     /\ CalledWith("client.Do", TRUE)
     /\ CalledWith("Encode", TRUE)
     /\ HandlerSucceeded) =>
        /\ w.code = StatusOK
        /\ Fired(metricsResultSuccess)
        /\ \E i \in DOMAIN w.body :
              w.body[i] = SealedBody(Context(s.gateway, req.body), BinaryResponse("200"))

\* the inner status the failure cause calls for
InnerStatusForCause ==
    CASE ~CanUnmarshalBinaryRequest(req.body.inner) -> "400"
      [] Fired(metricsResultTargetRequestForbidden) -> "403"
      [] OTHER -> "500"

\* C14: the inner status carried in the sealed response is determined by the
\* failure cause: 400 when the inner bytes do not decode, 403 when the inner
\* Host is not on the allow list, 500 when the fetch or the re-encoding fails.
C14_InnerStatusByCause ==
    (Done /\ Called("BinaryHTTPAppHandler.Handle") /\ ApplicationTierFailure) =>
        \E i \in DOMAIN w.body :
            w.body[i] = SealedBody(Context(s.gateway, req.body), BinaryResponse(InnerStatusForCause))

\* C15: a client that seals m under the public configuration of a stored
\* configuration (current or legacy) and POSTs it to the echo endpoint gets
\* outer 200 with a body that decapsulates to exactly m, and Success is fired.
C15_EchoRoundTrip ==
    (Done /\ FromClientOf(defaultEchoEndpoint) /\ SealNotFailed) =>
        /\ w.code = StatusOK
        /\ w.body = <<SealedBody(Context(s.gateway, req.body), req.body.inner)>>
        /\ Fired(metricsResultSuccess)

InnerHandlerOps == {"BinaryHTTPAppHandler.Handle", "EchoAppHandler.Handle", "DumpRequest"}

\* calls made by or inside the inner handler
InnerOps == InnerHandlerOps \cup {"client.Do", "Encode"}

CallCount(op) == Cardinality({i \in DOMAIN calls : calls[i].op = op})

\* C16: within one request decapsulation, the inner handler and
\* EncapsulateResponse each run at most once and in that order: the inner
\* handler only after a successful decapsulation, EncapsulateResponse only
\* after the inner handler has returned; no DecapsulateRequest, fetch or
\* EncapsulateResponse is repeated.
C16_StepOrder ==
    Done =>
        /\ \A op \in InnerOps \cup {"MatchesConfig", "DecapsulateRequest", "EncapsulateResponse"} :
              CallCount(op) <= 1
        /\ \A i \in DOMAIN calls :
              calls[i].op \in InnerOps =>
                  \E j \in 1..(i - 1) : calls[j] = [op |-> "DecapsulateRequest", ok |-> TRUE]
        /\ \A i \in DOMAIN calls :
              calls[i].op = "EncapsulateResponse" =>
                  /\ \E j \in 1..(i - 1) : calls[j].op \in InnerHandlerOps
                  /\ \A j \in DOMAIN calls : calls[j].op \in InnerOps => j < i
                  /\ i = Len(calls)

\* C16 witness: a request went through decapsulation, the fetch and the sealing.
C16_Witness ==
    /\ Done
    /\ Decapsulated
    /\ CalledWith("client.Do", TRUE)
    /\ HandlerSucceeded

----------------------------------------------------------------------------
(* Observations on requests served at the same time *)

TaskDone(t) == tasks[t].pc = "done"

GatewayTask(t) == tasks[t].req \in ConcRequests

ConfigTask(t) == tasks[t].req \in ConfigRequests

\* what the handler of task t holds: its writer, its bag
HandlerOf(t) == frames[FrameOf(t)].h

\* the handler of t run on its own, with no other request in flight
Alone(t) == gatewayHandler(s, tasks[t].req, tasks[t].env)

SealedItems(body) == {i \in DOMAIN body : body[i].kind = "ohttp-res"}

\* C17: under any interleaving each request uses only its own context and its
\* own bag: a response is sealed only with the context made by the same
\* request's decapsulation, the labels fired for a request are exactly those
\* in its bag, and the stored configurations never change.
C17_RequestIsolation ==
    /\ s.gateway = PrivateConfigs(defaultConfigID)
    /\ \A t \in Tasks :
          (TaskDone(t) /\ GatewayTask(t)) =>
              /\ \A i \in SealedItems(HandlerOf(t).w.body) :
                    HandlerOf(t).w.body[i].ctx = Context(s.gateway, tasks[t].req.body)
              /\ HandlerOf(t).bag = Alone(t).bag
              /\ HandlerOf(t).w = Alone(t).w

\* C17 witness: a response sealed for one request is complete while another
\* request, decapsulated under the other configuration, is still in flight.
C17_Witness ==
    \E t, u \in Tasks :
        /\ TaskDone(t) /\ GatewayTask(t)
        /\ SealedItems(HandlerOf(t).w.body) # {}
        /\ tasks[u].pc \in {"app", "seal", "reply"}
        /\ frames[FrameOf(u)].context # NoContext
        /\ frames[FrameOf(u)].context # frames[FrameOf(t)].context

\* C18: no handler (gateway, config or legacy-config) writes state shared with
\* other requests in flight: a step taken for one request changes nothing but
\* that request's own state.
C18_NoSharedWrite ==
    [][/\ s' = s
       /\ rng' = rng
       /\ \E t \in Tasks :
             \A u \in Tasks \ {t} : tasks'[u] = tasks[u] /\ frames'[u] = frames[u]]_vars

CacheControlOf(t) == HandlerOf(t).w.sent["Cache-Control"]

SucceededConfigTask(t) ==
    TaskDone(t) /\ ConfigTask(t) /\ HandlerOf(t).w.code = StatusOK

\* C19: every successful response of the current and of the legacy key
\* discovery endpoint carries Cache-Control "max-age=N, private" with
\* 12*3600 <= N < 36*3600.
C19_CacheControlWindow ==
    \A t \in Tasks :
        SucceededConfigTask(t) =>
            LET cc == CacheControlOf(t)
            IN /\ Len(cc) = 3
               /\ cc[1] = "max-age="
               /\ cc[3] = ", private"
               /\ 12 * 3600 <= cc[2]
               /\ cc[2] < 36 * 3600

\* C19 witness: both endpoints have answered, one with the largest and one
\* with the smallest max-age.
C19_Witness ==
    \E t, u \in Tasks :
        /\ SucceededConfigTask(t) /\ tasks[t].req.path = defaultConfigEndpoint
        /\ SucceededConfigTask(u) /\ tasks[u].req.path = defaultLegacyConfigEndpoint
        /\ CacheControlOf(t)[2] = 36 * 3600 - 1
        /\ CacheControlOf(u)[2] = 12 * 3600

StoredPublicConfigs == {PublicConfig(s.gateway[i]) : i \in 1..Len(s.gateway)}

\* C20: the current endpoint returns the public form of every stored
\* configuration, the primary one first, with Content-Type
\* application/ohttp-keys; the legacy endpoint returns only the public form of
\* the configuration with the legacy key ID and sets no Content-Type.
C20_KeyDiscoveryBodies ==
    \A t \in Tasks :
        (TaskDone(t) /\ ConfigTask(t)) =>
            LET hw == HandlerOf(t).w
            IN /\ hw.code = StatusOK
               /\ Len(hw.body) = 1
               /\ hw.body[1].kind = "ohttp-keys"
               /\ IF tasks[t].req.path = defaultConfigEndpoint
                  THEN /\ Len(hw.body[1].text) = Cardinality(StoredPublicConfigs)
                       /\ {hw.body[1].text[i] : i \in DOMAIN hw.body[1].text} = StoredPublicConfigs
                       /\ hw.body[1].text[1].keyID = defaultConfigID
                       /\ hw.header["Content-Type"] = "application/ohttp-keys"
                  ELSE /\ Len(hw.body[1].text) = 1
                       /\ hw.body[1].text[1] \in StoredPublicConfigs
                       /\ hw.body[1].text[1].keyID = s.legacyKeyID
                       /\ hw.header["Content-Type"] = ""

\* C20 witness: both endpoints have answered.
C20_Witness ==
    \E t, u \in Tasks :
        /\ TaskDone(t) /\ tasks[t].req.path = defaultConfigEndpoint
        /\ TaskDone(u) /\ tasks[u].req.path = defaultLegacyConfigEndpoint
        /\ HandlerOf(t).w.body # <<>>
        /\ HandlerOf(u).w.body # <<>>

----------------------------------------------------------------------------
(* Observations on the start of the process *)

Serving == boot.pc = "serving"

Panicked == boot.pc = "panic"

\* C21 as stated: for every primary configuration ID p in 0..255 the legacy
\* key ID computed at startup equals (p - 128) mod 255.
C21_LegacyKeyIDMod255 ==
    Serving => s.legacyKeyID = (boot.env.configID - 128) % 255

\* C21 amended: the subtraction is done on 8-bit unsigned values, so the
\* legacy key ID is p - 128 for p >= 128, and (p + 128) mod 255 for p < 128;
\* the legacy configuration is stored under that key ID.
C21_LegacyKeyIDUint8 ==
    Serving =>
        LET p == boot.env.configID
            legacy == IF p >= 128 THEN p - 128 ELSE (p + 128) % 255
        IN /\ s.legacyKeyID = legacy
           /\ s.gateway[2].keyID = legacy
           /\ s.gateway[1].keyID = p

\* C21 witness: started with the default primary ID 0, the legacy key ID is 128.
C21_Witness ==
    Serving /\ boot.env.configID = 0 /\ s.legacyKeyID = 128

ExactlyOneLabelSet ==
    (boot.env.requestLabel = "") # (boot.env.responseLabel = "")

BothLabelsSetAndEqual ==
    boot.env.requestLabel # "" /\ boot.env.requestLabel = boot.env.responseLabel

\* C22: when exactly one of the custom request and response labels is set the
\* gateway refuses to start; when both are set and equal the custom labels are
\* ignored and the default labels are used.
C22_CustomLabels ==
    boot.pc # "start" =>
        /\ ExactlyOneLabelSet => Panicked
        /\ BothLabelsSetAndEqual =>
              /\ Serving
              /\ boot.requestLabel = "message/bhttp request"
              /\ boot.responseLabel = "message/bhttp response"

----------------------------------------------------------------------------
(* Observations on a request handled under both debug settings *)

\* the debug flag changes neither the outer status nor the labels fired
C23_DebugStatusAndLabels ==
    Done => (twin.h.w.code = w.code /\ twin.h.bag = bag)

\* C23: the debug flag affects only the body of outer error responses: both
\* settings give the same outer status, the same fired labels and, on
\* success, the same response; and with debug disabled every outer error body
\* is exactly the generic status text of the returned status.
C23_DebugOnlyErrorBodies ==
    Done =>
        /\ twin.h.w.code = w.code
        /\ twin.h.bag = bag
        /\ w.code = StatusOK => twin.h.w = w
        /\ (~s.debugResponse /\ w.code # StatusOK) =>
              w.body = <<PlainBody(<<StatusText(w.code)>>)>>

----------------------------------------------------------------------------
(* Observations on two requests handled by the same gateway *)

\* what the allow list decided for a handled request, if it was consulted
Decision(h) ==
    IF \E i \in DOMAIN h.bag : h.bag[i].name = metricsResultTargetRequestForbidden
    THEN "forbid"
    ELSE IF \E i \in DOMAIN h.calls : h.calls[i].op = "client.Do"
         THEN "allow"
         ELSE "none"

FirstDecision == Decision([bag |-> bag, calls |-> calls])

SameInnerHost ==
    /\ CanUnmarshalBinaryRequest(req.body.inner)
    /\ CanUnmarshalBinaryRequest(twin.req.body.inner)
    /\ RequestHost(req.body.inner) = RequestHost(twin.req.body.inner)

\* C24: the allow/forbid decision depends only on the inner request's Host and
\* the allow list: two requests with the same inner Host get the same
\* decision, and that decision is the one the allow list gives for the Host,
\* whatever the outer Host and path and the rest of the inner request.
C24_DecisionByInnerHost ==
    (Done /\ SameInnerHost /\ FirstDecision # "none" /\ Decision(twin.h) # "none") =>
        /\ FirstDecision = Decision(twin.h)
        /\ FirstDecision = "forbid" <=>
              (s.allowedOrigins # NilOrigins /\ RequestHost(req.body.inner) \notin s.allowedOrigins)

\* C24 witness: two requests that differ in the outer Host, in the sealing
\* configuration and in the rest of the inner request, with the same inner
\* Host, were both refused.
C24_Witness ==
    /\ Done
    /\ SameInnerHost
    /\ req.host # twin.req.host
    /\ req.body.keyID # twin.req.body.keyID
    /\ req.body.inner # twin.req.body.inner
    /\ FirstDecision = "forbid"
    /\ Decision(twin.h) = "forbid"

----------------------------------------------------------------------------
(* The arms of the content-type dispatch *)

InHandler(t) == tasks[t].pc \in {"handle", "app", "seal", "reply"}

DispatchedTask(t) ==
    /\ TaskDone(t)
    /\ GatewayTask(t)
    /\ tasks[t].req.method = "POST"
    /\ tasks[t].req.contentType \in {ohttpRequestContentType, ohttpChunkedRequestContentType}

BagCount(h, name) == Cardinality({i \in DOMAIN h.bag : h.bag[i].name = name})

\* C25: each arm of the content-type dispatch is terminal: every gateway
\* request eventually ends with exactly one outer response, written once, and
\* after the arm for message/ohttp-req or message/ohttp-chunked-req has handled
\* the request no further error response is written and no further metric fired.
C25_TerminalArms ==
    /\ \A t \in Tasks : InHandler(t) ~> TaskDone(t)
    /\ [](\A t \in Tasks :
            DispatchedTask(t) =>
                /\ Len(HandlerOf(t).w.body) = 1
                /\ BagCount(HandlerOf(t), "response_status") = 1
                /\ BagCount(HandlerOf(t), metricsResultInvalidContentType) = 0)

\* every handler that has been entered returns
C25_HandlerReturns == \A t \in Tasks : InHandler(t) ~> TaskDone(t)

----------------------------------------------------------------------------
(* Rejections before the encapsulation handler *)

ChunkedPost == req.method = "POST" /\ req.contentType = ohttpChunkedRequestContentType

\* C26: a POST with Content-Type message/ohttp-chunked-req is answered 400
\* through the invalid-content-type path (InvalidContentType fired); its body
\* is not read and no configuration match, decapsulation or handler is
\* performed for it.
C26_ChunkedStub ==
    (Done /\ ChunkedPost) =>
        /\ w.code = StatusBadRequest
        /\ Fired(metricsResultInvalidContentType)
        /\ OutcomesFired = {i \in DOMAIN bag : bag[i].name = metricsResultInvalidContentType}
        /\ calls = <<>>

\* C26 witness: a chunked POST carrying a well-formed request for a stored
\* configuration has been answered 400.
C26_Witness ==
    /\ Done
    /\ ChunkedPost
    /\ req.path = defaultGatewayEndpoint
    /\ req.body.kind = "encap"
    /\ MayOpen(s.gateway, req.body)
    /\ w.code = StatusBadRequest

UnusableBody == req.body.kind \in {"unreadable", "garbage"}

OhttpPost == req.method = "POST" /\ req.contentType = ohttpRequestContentType

\* C27: a POST with Content-Type message/ohttp-req whose body cannot be read
\* or parsed yields 400 and fires InvalidContent, and no encapsulation handler
\* is invoked; this for every URL path, also one with no registered handler.
C27_InvalidContent ==
    (Done /\ OhttpPost /\ UnusableBody) =>
        /\ w.code = StatusBadRequest
        /\ Fired(metricsResultInvalidContent)
        /\ ~Called("MatchesConfig")

\* C27 amended: on a path with a registered encapsulation handler such a
\* request yields 400, fires InvalidContent and reaches no encapsulation
\* handler; on a path with no registered handler it yields 400 before the body
\* is read, and InvalidContent is not fired.
C27_InvalidContentRegisteredPath ==
    (Done /\ OhttpPost /\ UnusableBody) =>
        /\ w.code = StatusBadRequest
        /\ ~Called("MatchesConfig")
        /\ IF req.path \in {defaultGatewayEndpoint, defaultEchoEndpoint, defaultMetadataEndpoint}
           THEN Fired(metricsResultInvalidContent)
           ELSE ~Fired(metricsResultInvalidContent) /\ ~Called("ReadAll")

\* C27 witness: an unparseable body sent to the gateway endpoint was answered
\* 400 with InvalidContent fired.
C27_Witness ==
    /\ Done
    /\ OhttpPost
    /\ req.body.kind = "garbage"
    /\ req.path = defaultGatewayEndpoint
    /\ w.code = StatusBadRequest
    /\ Fired(metricsResultInvalidContent)

\* C28: a POST with Content-Type message/ohttp-req to a path with no
\* registered encapsulation handler yields 400, and no configuration match,
\* decapsulation or outbound fetch is performed for it.
C28_UnknownHandler ==
    (Done /\ OhttpPost /\ req.path = "/unregistered") =>
        /\ w.code = StatusBadRequest
        /\ ~Called("MatchesConfig")
        /\ ~Called("DecapsulateRequest")
        /\ ~Called("client.Do")

\* C28 witness: a well-formed request for a stored configuration, with an
\* allowed target, sent to such a path was answered 400.
C28_Witness ==
    /\ Done
    /\ OhttpPost
    /\ req.path = "/unregistered"
    /\ req.body.kind = "encap"
    /\ MayOpen(s.gateway, req.body)
    /\ req.body.inner = BinaryRequest("allowed.example")
    /\ w.code = StatusBadRequest

----------------------------------------------------------------------------
(* Failures after decapsulation *)

SealFailed == CalledWith("EncapsulateResponse", FALSE)

\* what the inner handler produced for the request
InnerResponseParts == {chunks[i] : i \in DOMAIN chunks} \cup {DumpRequest(req)}

NoInnerResponseInBody ==
    \A i \in DOMAIN w.body :
        /\ w.body[i].kind = "plain"
        /\ w.body[i].text \notin InnerResponseParts

C29_MetadataSealFailure ==
    (Done /\ SealFailed /\ req.path = defaultMetadataEndpoint) =>
        /\ w.code = StatusBadRequest
        /\ Fired(metricsResultEncapsulationFailed)
        /\ NoInnerResponseInBody

HandlerFailed == Done /\ handlerErr # ErrNil

\* the status ohttpGatewayHandler answered the handler's error with: the one
\* of the first response_status event of the request
AnsweredWith(code) ==
    \E i \in DOMAIN bag :
        /\ bag[i] = StatusLabel(req.method, code)
        /\ \A j \in 1..(i - 1) : bag[j].name # "response_status"

C30_MismatchReached ==
    /\ HandlerFailed
    /\ handlerErr = ErrConfigMismatch
    /\ w.code = StatusUnauthorized

----------------------------------------------------------------------------
(* The two stored configurations *)

\* the stored configurations an encapsulated request with this key ID belongs to
ConfigsWithKeyID(gateway, keyID) == {i \in 1..Len(gateway) : gateway[i].keyID = keyID}

\* C31: for every primary configuration ID in 0..255 the legacy key ID derived
\* at startup differs from the primary key ID, so the two stored
\* configurations are distinguishable by key_id and an encapsulated request
\* belongs to at most one of them.
C31_DistinctKeyIDs ==
    Serving =>
        /\ s.legacyKeyID # boot.env.configID
        /\ s.gateway[1].keyID # s.gateway[2].keyID
        /\ \A keyID \in Uint8 : Cardinality(ConfigsWithKeyID(s.gateway, keyID)) <= 1

\* C31 witness: started with primary ID 127, where the legacy ID wraps to 0,
\* a request with key_id 0 belongs to the legacy configuration alone.
C31_Witness ==
    /\ Serving
    /\ boot.env.configID = 127
    /\ s.legacyKeyID = 0
    /\ ConfigsWithKeyID(s.gateway, 0) = {2}

----------------------------------------------------------------------------
(* The metadata endpoint *)

\* a parsed encapsulated request has been handled by the metadata handler
MetadataHandled ==
    Done /\ OhttpPost /\ req.path = defaultMetadataEndpoint /\ Parsed

SealedInBody == {i \in DOMAIN w.body : w.body[i].kind = "ohttp-res"}

\* C32: the metadata handler applies the same gate as the default handler
\* before producing any response: a request with no matching configuration
\* gets 401 and ConfigMismatch, one that fails to decapsulate gets 400 and
\* DecapsulationFailed; the dump of the outer request is made and sealed only
\* after a successful decapsulation; and what is sealed is the same whatever
\* the decapsulated plaintext is.
C32_MetadataGate ==
    MetadataHandled =>
        /\ ~MatchesConfig(s.gateway, req.body) =>
              /\ w.code = StatusUnauthorized
              /\ Fired(metricsResultConfigurationMismatch)
              /\ ~Called("DecapsulateRequest")
        /\ CalledWith("DecapsulateRequest", FALSE) =>
              /\ w.code = StatusBadRequest
              /\ Fired(metricsResultDecapsulationFailed)
        /\ (Called("DumpRequest") \/ Called("EncapsulateResponse") \/ SealedInBody # {}) =>
              Decapsulated
        /\ \A i \in SealedInBody : \A inner \in InnerPayloads :
              w.body[i].text = DumpRequest([req EXCEPT !.body.inner = inner])

\* C32 witness: a request carrying a binary HTTP request for a forbidden
\* target was decapsulated by the metadata handler and answered with the
\* sealed dump of the outer request.
C32_Witness ==
    /\ MetadataHandled
    /\ Decapsulated
    /\ req.body.inner = BinaryRequest("forbidden.example")
    /\ w.code = StatusOK
    /\ SealedInBody # {}
    /\ \A i \in SealedInBody : w.body[i].text = DumpRequest(req)

\* C32, the gate: both refusals occur on the metadata endpoint
C32_MismatchRefused ==
    MetadataHandled /\ ~MatchesConfig(s.gateway, req.body) /\ w.code = StatusUnauthorized

C32_UndecapsulatedRefused ==
    MetadataHandled /\ CalledWith("DecapsulateRequest", FALSE) /\ w.code = StatusBadRequest

----------------------------------------------------------------------------
(* The legacy key-discovery endpoint without a legacy configuration *)

LegacyKeyRequestDone == Done /\ req.path = defaultLegacyConfigEndpoint

HoldsLegacyConfig == s.legacyKeyID \in KeyMap(s.gateway)

ConfigBytesWritten == \E i \in DOMAIN w.body : w.body[i].kind = "ohttp-keys"

\* C33: when the gateway holds no configuration under the legacy key ID, the
\* legacy key-discovery endpoint answers 500, fires configs_unavailable,
\* writes no configuration bytes and sets no Cache-Control header; otherwise
\* it answers 200.
C33_LegacyConfigUnavailable ==
    LegacyKeyRequestDone =>
        IF ~HoldsLegacyConfig
        THEN /\ w.code = StatusInternalServerError
             /\ Fired(metricsResultConfigsUnavalable)
             /\ ~ConfigBytesWritten
             /\ w.header["Cache-Control"] = ""
             /\ w.sent["Cache-Control"] = ""
        ELSE w.code = StatusOK

\* C33 witness: a gateway that stores only the primary configuration has
\* answered a request to the legacy endpoint with 500.
C33_Witness ==
    /\ LegacyKeyRequestDone
    /\ Len(s.gateway) = 1
    /\ ~HoldsLegacyConfig
    /\ w.code = StatusInternalServerError
    /\ Fired(metricsResultConfigsUnavalable)

\* C33, the other branch: the stored legacy configuration was served
C33_ServedReached ==
    LegacyKeyRequestDone /\ HoldsLegacyConfig /\ w.code = StatusOK /\ ConfigBytesWritten

====
